---- MODULE Spec2Model ----
(***************************************************************************)
(* Model of the smart-home command engine (lib/agent: processCommand and   *)
(* its five intent handlers) and of the state it keeps in memory.          *)
(*                                                                         *)
(* Text is modelled as TLA+ strings, i.e. sequences of characters, and the *)
(* JavaScript string operations (includes, trim, toLowerCase, split,       *)
(* replace and the regular expressions) are computed on the characters.    *)
(* Two characters of the source are outside the character set of TLA+      *)
(* strings and are written in ASCII: the degree sign as "^" and the bullet *)
(* as "*".                                                                 *)
(***************************************************************************)
EXTENDS Integers, Sequences, FiniteSets, TLC

(***************************************************************************)
(* Bounds of the model.                                                    *)
(***************************************************************************)
MaxClock == 1
MaxTasks == 2
MaxRequests == 2

(***************************************************************************)
(* JavaScript strings.                                                     *)
(***************************************************************************)
CharAt(s, i) == IF i >= 1 /\ i <= Len(s) THEN SubSeq(s, i, i) ELSE ""

StartsAt(s, i, p) ==
  /\ i >= 1
  /\ i + Len(p) - 1 <= Len(s)
  /\ SubSeq(s, i, i + Len(p) - 1) = p

includes(s, p) == \E i \in 1..(Len(s) - Len(p) + 1) : StartsAt(s, i, p)

\* String.prototype.indexOf / lastIndexOf, 1-based, 0 when absent
indexOf(s, p) ==
  IF includes(s, p)
  THEN CHOOSE i \in 1..(Len(s) - Len(p) + 1) :
         /\ StartsAt(s, i, p)
         /\ \A j \in 1..(i - 1) : ~StartsAt(s, j, p)
  ELSE 0

lastIndexOf(s, p) ==
  IF includes(s, p)
  THEN CHOOSE i \in 1..(Len(s) - Len(p) + 1) :
         /\ StartsAt(s, i, p)
         /\ \A j \in (i + 1)..(Len(s) - Len(p) + 1) : ~StartsAt(s, j, p)
  ELSE 0

\* white space (trim, \s): the commands of the model hold no other white
\* space than the space, and no line terminator (which "." would not match)
IsSpace(c) == c \in {" "}

trim(s) ==
  IF \A i \in 1..Len(s) : IsSpace(CharAt(s, i))
  THEN ""
  ELSE LET first == CHOOSE i \in 1..Len(s) :
                      /\ ~IsSpace(CharAt(s, i))
                      /\ \A j \in 1..(i - 1) : IsSpace(CharAt(s, j))
           last  == CHOOSE i \in 1..Len(s) :
                      /\ ~IsSpace(CharAt(s, i))
                      /\ \A j \in (i + 1)..Len(s) : IsSpace(CharAt(s, j))
       IN SubSeq(s, first, last)

LowerAlphabet == "abcdefghijklmnopqrstuvwxyz"
UpperAlphabet == "ABCDEFGHIJKLMNOPQRSTUVWXYZ"

lowerChar(c) ==
  IF includes(UpperAlphabet, c) /\ Len(c) = 1
  THEN CharAt(LowerAlphabet, indexOf(UpperAlphabet, c))
  ELSE c

upperChar(c) ==
  IF includes(LowerAlphabet, c) /\ Len(c) = 1
  THEN CharAt(UpperAlphabet, indexOf(LowerAlphabet, c))
  ELSE c

RECURSIVE toLowerCase(_)
toLowerCase(s) ==
  IF s = "" THEN ""
  ELSE lowerChar(CharAt(s, 1)) \o toLowerCase(SubSeq(s, 2, Len(s)))

\* String.prototype.replace with a string pattern: the first occurrence only
replace(s, p, r) ==
  LET i == indexOf(s, p)
  IN IF i = 0 THEN s
     ELSE SubSeq(s, 1, i - 1) \o r \o SubSeq(s, i + Len(p), Len(s))

\* command.split(sep).pop(): the text after the last occurrence of sep
splitPop(s, sep) ==
  LET i == lastIndexOf(s, sep)
  IN IF i = 0 THEN s ELSE SubSeq(s, i + Len(sep), Len(s))

DigitChars == "0123456789"
IsDigit(c) == Len(c) = 1 /\ includes(DigitChars, c)
DigitVal(c) == indexOf(DigitChars, c) - 1

\* Number(text) of a run of decimal digits
RECURSIVE Number(_)
Number(s) ==
  IF s = "" THEN 0
  ELSE 10 * Number(SubSeq(s, 1, Len(s) - 1)) + DigitVal(CharAt(s, Len(s)))

\* template-literal formatting of a non-negative integer
RECURSIVE NumToStr(_)
NumToStr(n) ==
  IF n < 10 THEN CharAt(DigitChars, n + 1)
  ELSE NumToStr(n \div 10) \o CharAt(DigitChars, (n % 10) + 1)

\* nullable values: null is <<>>, a value v is <<v>>
Null == <<>>
Some(v) == <<v>>

\* /keyword (.+)/ : the text after the leftmost "keyword " that is followed
\* by at least one character
matchRest(s, keyword) ==
  LET pat == keyword \o " "
      ok(i) == StartsAt(s, i, pat) /\ i + Len(pat) <= Len(s)
  IN IF \E i \in 1..Len(s) : ok(i)
     THEN LET i == CHOOSE k \in 1..Len(s) :
                     ok(k) /\ \A j \in 1..(k - 1) : ~ok(j)
          IN Some(SubSeq(s, i + Len(pat), Len(s)))
     ELSE Null

\* the end of the run of digits that starts at i
digitRunEnd(s, i) ==
  CHOOSE j \in i..Len(s) :
    /\ \A k \in i..j : IsDigit(CharAt(s, k))
    /\ ~IsDigit(CharAt(s, j + 1))

\* /(\d+)\s?(?:suffix1|suffix2|...)/ : the digits of the leftmost match
matchNumberBefore(s, suffixes) ==
  LET ok(i) ==
        /\ IsDigit(CharAt(s, i))
        /\ LET j == digitRunEnd(s, i)
           IN \E suf \in suffixes :
                \/ StartsAt(s, j + 1, suf)
                \/ IsSpace(CharAt(s, j + 1)) /\ StartsAt(s, j + 2, suf)
  IN IF \E i \in 1..Len(s) : ok(i)
     THEN LET i == CHOOSE k \in 1..Len(s) :
                     ok(k) /\ \A j \in 1..(k - 1) : ~ok(j)
          IN Some(SubSeq(s, i, digitRunEnd(s, i)))
     ELSE Null

\* the leftmost run of two or more digits, whole
matchDigitRun(s) ==
  LET ok(i) == IsDigit(CharAt(s, i)) /\ IsDigit(CharAt(s, i + 1))
  IN IF \E i \in 1..Len(s) : ok(i)
     THEN LET i == CHOOSE k \in 1..Len(s) :
                     ok(k) /\ \A j \in 1..(k - 1) : ~ok(j)
          IN Some(SubSeq(s, i, digitRunEnd(s, i)))
     ELSE Null

\* /(\d{2})(?:\s?degrees|^|)/ : the last alternative is empty, so the match
\* is the leftmost pair of consecutive digits
matchTwoDigits(s) ==
  LET ok(i) == IsDigit(CharAt(s, i)) /\ IsDigit(CharAt(s, i + 1))
  IN IF \E i \in 1..Len(s) : ok(i)
     THEN LET i == CHOOSE k \in 1..Len(s) :
                     ok(k) /\ \A j \in 1..(k - 1) : ~ok(j)
          IN Some(SubSeq(s, i, i + 1))
     ELSE Null

\* the first argument, whatever the second
MaxIsFirst(a, b) == a

Max(a, b) == IF a >= b THEN a ELSE b
Min(a, b) == IF a <= b THEN a ELSE b

\* clamp without the two limits
clampUnbounded(value, min, max) == value

clamp(value, min, max) == Min(Max(value, min), max)

\* capitalize that leaves the first character as it is
capitalizeUnchanged(value) == value

capitalize(value) ==
  IF Len(value) = 0 THEN value
  ELSE upperChar(CharAt(value, 1)) \o SubSeq(value, 2, Len(value))

(***************************************************************************)
(* The household state.  A state is a record with the five domain parts    *)
(* (lights, thermostat, music, security, tasks) and lastUpdated.           *)
(*                                                                         *)
(* Object identity: the parts are objects, and an object other than the    *)
(* engine's own state (the defaults, a snapshot handed to a caller) may    *)
(* hold the very same part objects as the engine.  Such a holder carries   *)
(* the field `shared`, the set of parts it shares with the engine; a       *)
(* shared part is read from, and written to, the engine's state.           *)
(***************************************************************************)
Parts == {"lights", "thermostat", "music", "security", "tasks"}

LightOrder == <<"living", "kitchen", "bedroom">>
LightKeys == {LightOrder[i] : i \in 1..Len(LightOrder)}

defaultValues ==
  [ lights |->
      [k \in LightKeys |->
         CASE k = "living"  -> [location |-> "living room", on |-> FALSE, brightness |-> 40]
           [] k = "kitchen" -> [location |-> "kitchen", on |-> FALSE, brightness |-> 50]
           [] k = "bedroom" -> [location |-> "bedroom", on |-> FALSE, brightness |-> 25]],
    thermostat |-> [temperature |-> 72, mode |-> "eco"],
    music |-> [playing |-> FALSE, track |-> Null, volume |-> 45],
    security |-> [armed |-> FALSE, mode |-> "home"],
    tasks |-> <<>>,
    lastUpdated |-> 0 ]

VARIABLES
  now,             \* the clock read by new Date()
  smartHomeState,  \* the engine's state
  defaultState,    \* the defaults (a holder)
  response,        \* the AgentResponse returned by the last call (its state is a holder)
  lastCall         \* the last operation: the call's raw command, or a caller's mutation

\* the page (part_000) and its requests to /api/agent
VARIABLES
  page,            \* the React state of the page as of its latest render
  requests         \* the requests to /api/agent that have not settled yet

vars == <<now, smartHomeState, defaultState, response, lastCall, page, requests>>

\* the value a holder has for each part
View(h) ==
  [ lights      |-> IF "lights" \in h.shared THEN smartHomeState.lights ELSE h.lights,
    thermostat  |-> IF "thermostat" \in h.shared THEN smartHomeState.thermostat ELSE h.thermostat,
    music       |-> IF "music" \in h.shared THEN smartHomeState.music ELSE h.music,
    security    |-> IF "security" \in h.shared THEN smartHomeState.security ELSE h.security,
    tasks       |-> IF "tasks" \in h.shared THEN smartHomeState.tasks ELSE h.tasks,
    lastUpdated |-> h.lastUpdated ]

Holder(v, sharedParts) ==
  [ lights |-> v.lights, thermostat |-> v.thermostat, music |-> v.music,
    security |-> v.security, tasks |-> v.tasks, lastUpdated |-> v.lastUpdated,
    shared |-> sharedParts ]

\* a clone that hands back its source's own objects
deepCloneSameObjects(h) == [value |-> View(h), sameObjects |-> TRUE]

\* deepClone: a structural copy; the result shares no object with its source
deepClone(h) == [value |-> View(h), sameObjects |-> FALSE]

(***************************************************************************)
(* The raw commands of the model.                                          *)
(***************************************************************************)
RawCommands ==
  { "  ", "reset everything", "reset", "Arm the house away",
    "security status", "disarm", "alarm status", "music status",
    "what's playing", "add a reminder to water the plants",
    "add reminder buy milk", "complete water the plants",
    "list my reminders", "frobnicate the quux", "turn on the lounge",
    "play jazz", "pause" }

\* the commands of the specification with a caller that writes into snapshots
CallerCommands ==
  { "", "  ", "reset", "Arm the house away", "add reminder buy milk",
    "turn on the lounge" }

\* the commands of the specification of the bounded values
BoundsCommands ==
  { "dim the kitchen", "brighten the living room", "volume up", "volume down",
    "set the thermostat to 99 degrees", "set temperature to 10",
    "set the bedroom to 150%" }

\* the commands of the specification of the queries: the status queries and
\* a few commands that change what they report
QueryCommands ==
  { "light status", "thermostat status", "temperature status", "music status",
    "security status", "alarm status", "list my reminders",
    "give me a status report", "turn on the lounge", "play jazz",
    "add reminder buy milk" }

\* the commands of the specification of the lights
LightCommands ==
  { "turn on the lounge", "turn on the living room", "switch on the lights",
    "turn on the kitchen lights at 30%", "set the kitchen to 30%",
    "dim the lights", "lower the bedroom", "brighten the bedroom",
    "brighten the lights",
    "turn off the lights", "turn off the kitchen" }

\* the commands of the specification of the handler chain
ChainCommands ==
  { "turn off the thermostat", "play", "play music", "Play Jazz Music",
    "pause", "arm the house", "add reminder buy milk",
    "set the thermostat to 68 degrees", "switch on the lights", "reset",
    "frobnicate the quux", "", "  " }

\* the commands of the specification of the percentages
PercentCommands ==
  { "set the lights to 30%", "make it 5% louder", "5 percent",
    "set brightness to 70 percent", "set the kitchen to 30%",
    "turn on the lights", "turn off the lights" }

BootstrapCommand == "give me a status report"

\* what is typed into the form of the page or spoken to it
PageCommands == { BootstrapCommand, "turn on the lights", " " }

\* the commands of the specification of the thermostat
ThermostatCommands ==
  { "set the thermostat to 100", "set the thermostat to 7",
    "set the thermostat to 68 degrees", "set temperature to 1234",
    "thermostat to 850 degrees", "cool it down to 7", "heat the house",
    "turn on the lights" }

\* the commands of the specification of the reminders
TaskCommands ==
  { "add reminder buy milk", "add reminder buy bread",
    "add a reminder to complete the report", "complete buy", "Complete Buy Milk",
    "complete", "done with everything", "complete the reset",
    "list my reminders", "reset" }

AllRawCommands ==
  RawCommands \cup CallerCommands \cup BoundsCommands \cup QueryCommands
    \cup LightCommands \cup ChainCommands \cup PercentCommands
    \cup TaskCommands \cup ThermostatCommands \cup PageCommands

\* the normalization without the trim
normalizeUntrimmed(rawCommand) == toLowerCase(rawCommand)

normalize(rawCommand) == toLowerCase(trim(rawCommand))

(***************************************************************************)
(* The tests the handlers make on the text of a command.  They depend on   *)
(* the text only, so they are evaluated once per command text (Tests) and  *)
(* the handlers below branch on the results.                               *)
(***************************************************************************)
\* the aliases with "lounge" naming the kitchen light
lightAliasesLoungeKitchen ==
  << <<"living", "living">>, <<"living room", "living">>, <<"lounge", "kitchen">>,
     <<"kitchen", "kitchen">>, <<"cook", "kitchen">>, <<"bedroom", "bedroom">>,
     <<"bed", "bedroom">>, <<"master", "bedroom">> >>

lightAliases ==
  << <<"living", "living">>, <<"living room", "living">>, <<"lounge", "living">>,
     <<"kitchen", "kitchen">>, <<"cook", "kitchen">>, <<"bedroom", "bedroom">>,
     <<"bed", "bedroom">>, <<"master", "bedroom">> >>

\* the lookup that answers with the living light when no alias is found
identifyLightOrLiving(command) ==
  IF \E i \in 1..Len(lightAliases) : includes(command, lightAliases[i][1])
  THEN LET i == CHOOSE k \in 1..Len(lightAliases) :
                  /\ includes(command, lightAliases[k][1])
                  /\ \A j \in 1..(k - 1) : ~includes(command, lightAliases[j][1])
       IN Some(lightAliases[i][2])
  ELSE Some("living")

identifyLight(command) ==
  IF \E i \in 1..Len(lightAliases) : includes(command, lightAliases[i][1])
  THEN LET i == CHOOSE k \in 1..Len(lightAliases) :
                  /\ includes(command, lightAliases[k][1])
                  /\ \A j \in 1..(k - 1) : ~includes(command, lightAliases[j][1])
       IN Some(lightAliases[i][2])
  ELSE Null

lightTests(command) ==
  [ locationKey     |-> identifyLight(command),
    turnOn          |-> includes(command, "turn on") \/ includes(command, "switch on"),
    turnOff         |-> includes(command, "turn off") \/ includes(command, "switch off"),
    brightnessMatch |-> LET m == matchNumberBefore(command, {"%"})
                        IN IF m # Null THEN m
                           ELSE matchNumberBefore(command, {"percent", "brightness"}),
    dim             |-> includes(command, "dim") \/ includes(command, "lower"),
    brighten        |-> includes(command, "brighten") \/ includes(command, "increase"),
    status          |-> includes(command, "status")
                        /\ (includes(command, "light") \/ includes(command, "lights")) ]

thermostatTests(command) ==
  [ numberMatch |-> matchTwoDigits(command),
    cool        |-> includes(command, "cool") \/ includes(command, "ac"),
    heat        |-> includes(command, "heat") \/ includes(command, "heating"),
    eco         |-> includes(command, "eco") \/ includes(command, "energy saver"),
    off         |-> includes(command, "turn off") /\ includes(command, "thermostat"),
    status      |-> includes(command, "temperature") \/ includes(command, "thermostat") ]

musicTests(command) ==
  [ play       |-> includes(command, "play"),
    track      |-> LET m == matchRest(command, "play")
                   IN IF m = Null THEN "playlist"
                      ELSE trim(replace(m[1], "music", "")),
    pause      |-> includes(command, "pause") \/ includes(command, "stop"),
    skip       |-> includes(command, "skip"),
    volumeUp   |-> includes(command, "volume up") \/ includes(command, "louder"),
    volumeDown |-> includes(command, "volume down") \/ includes(command, "quieter"),
    status     |-> includes(command, "music status") \/ includes(command, "what's playing") ]

securityTests(command) ==
  [ arm    |-> includes(command, "arm"),
    away   |-> includes(command, "away"),
    disarm |-> includes(command, "disarm"),
    status |-> includes(command, "security status") \/ includes(command, "alarm status") ]

taskTests(command) ==
  [ add      |-> includes(command, "add") /\ includes(command, "reminder"),
    reminder |-> trim(splitPop(command, "reminder")),
    list     |-> includes(command, "list") /\ includes(command, "reminder"),
    complete |-> includes(command, "complete") \/ includes(command, "done with"),
    query    |-> LET c == matchRest(command, "complete")
                     m == IF c # Null THEN c ELSE matchRest(command, "done with")
                 IN IF m = Null THEN Null ELSE Some(toLowerCase(trim(m[1]))) ]

\* the fallback tests with the test for "reset" negated
fallbackTestsNegatedReset(command) ==
  [ status |-> includes(command, "status") \/ includes(command, "everything"),
    reset  |-> ~includes(command, "reset") ]

fallbackTests(command) ==
  [ status |-> includes(command, "status") \/ includes(command, "everything"),
    reset  |-> includes(command, "reset") ]

Normalized == [raw \in AllRawCommands |-> normalize(raw)]

CommandTexts == {Normalized[raw] : raw \in AllRawCommands}

Tests ==
  [ command \in CommandTexts |->
      [ light      |-> lightTests(command),
        thermostat |-> thermostatTests(command),
        music      |-> musicTests(command),
        security   |-> securityTests(command),
        task       |-> taskTests(command),
        fallback   |-> fallbackTests(command) ] ]

(***************************************************************************)
(* LightHandler                                                            *)
(***************************************************************************)
RECURSIVE setAllLightsFrom(_, _, _, _)
setAllLightsFrom(i, lights, on, actions) ==
  IF i > Len(LightOrder) THEN [lights |-> lights, actions |-> actions]
  ELSE LET k == LightOrder[i]
       IN setAllLightsFrom(i + 1,
            [lights EXCEPT ![k].on = on],
            on,
            Append(actions, (IF on THEN "Activated" ELSE "Deactivated")
                            \o " " \o lights[k].location \o " lights"))

setAllLights(lights, on, actions) == setAllLightsFrom(1, lights, on, actions)

\* the adjustment without the guard on the on flag
RECURSIVE adjustBrightnessFromUnguarded(_, _, _, _)
adjustBrightnessFromUnguarded(i, lights, delta, actions) ==
  IF i > Len(LightOrder) THEN [lights |-> lights, actions |-> actions]
  ELSE LET k == LightOrder[i]
           b == clamp(lights[k].brightness + delta, 0, 100)
       IN adjustBrightnessFromUnguarded(i + 1,
            [lights EXCEPT ![k].brightness = b, ![k].on = (b > 0)],
            delta,
            Append(actions, "Set " \o lights[k].location \o " brightness to "
                            \o NumToStr(b) \o "%"))

RECURSIVE adjustBrightnessFrom(_, _, _, _)
adjustBrightnessFrom(i, lights, delta, actions) ==
  IF i > Len(LightOrder) THEN [lights |-> lights, actions |-> actions]
  ELSE LET k == LightOrder[i]
           b == clamp(lights[k].brightness + delta, 0, 100)
           o == IF lights[k].on \/ delta > 0 THEN b > 0 ELSE lights[k].on
       IN adjustBrightnessFrom(i + 1,
            [lights EXCEPT ![k].brightness = b, ![k].on = o],
            delta,
            Append(actions, "Set " \o lights[k].location \o " brightness to "
                            \o NumToStr(b) \o "%"))

adjustBrightness(lights, delta, actions) == adjustBrightnessFrom(1, lights, delta, actions)

\* what a handler returns: the reply (Null when it declines), and the state
\* and action log as it leaves them
Result(reply, s, actions) == [reply |-> reply, s |-> s, actions |-> actions]

handleLightCommand(s, command, actions) ==
  LET c == Tests[command].light
      hasTarget == c.locationKey # Null
      key == IF hasTarget THEN c.locationKey[1] ELSE "living"
      target == s.lights[key]
  IN
  IF c.turnOn THEN
    IF hasTarget THEN
      Result(Some("Turning on the " \o target.location \o " lights."),
             [s EXCEPT !.lights[key].on = TRUE,
                       !.lights[key].brightness = Max(target.brightness, 60)],
             Append(actions, "Turned on " \o target.location \o " lights"))
    ELSE
      LET r == setAllLights(s.lights, TRUE, actions)
      IN Result(Some("Turning on all configured lights."),
                [s EXCEPT !.lights = r.lights], r.actions)
  ELSE IF c.turnOff THEN
    IF hasTarget THEN
      Result(Some("Turning off the " \o target.location \o " lights."),
             [s EXCEPT !.lights[key].on = FALSE],
             Append(actions, "Turned off " \o target.location \o " lights"))
    ELSE
      LET r == setAllLights(s.lights, FALSE, actions)
      IN Result(Some("Turning off every light in the home."),
                [s EXCEPT !.lights = r.lights], r.actions)
  ELSE IF c.brightnessMatch # Null /\ hasTarget THEN
    LET level == clamp(Number(c.brightnessMatch[1]), 0, 100)
    IN Result(Some("Setting the " \o target.location \o " lights to "
                   \o NumToStr(level) \o "% brightness."),
              [s EXCEPT !.lights[key].brightness = level,
                        !.lights[key].on = (level > 0)],
              Append(actions, "Adjusted " \o target.location \o " brightness to "
                              \o NumToStr(level) \o "%"))
  ELSE IF c.dim THEN
    IF hasTarget THEN
      LET b == clamp(target.brightness - 20, 0, 100)
      IN Result(Some("Dimming the " \o target.location \o " lights."),
                [s EXCEPT !.lights[key].brightness = b,
                          !.lights[key].on = (b > 0)],
                Append(actions, "Dimmed " \o target.location \o " lights to "
                                \o NumToStr(b) \o "% brightness"))
    ELSE
      LET r == adjustBrightness(s.lights, 0 - 20, actions)
      IN Result(Some("Dimming the house lights."),
                [s EXCEPT !.lights = r.lights], r.actions)
  ELSE IF c.brighten THEN
    IF hasTarget THEN
      LET b == clamp(target.brightness + 20, 0, 100)
      IN Result(Some("Brightening the " \o target.location \o " lights."),
                [s EXCEPT !.lights[key].brightness = b,
                          !.lights[key].on = TRUE],
                Append(actions, "Brightened " \o target.location \o " lights to "
                                \o NumToStr(b) \o "% brightness"))
    ELSE
      LET r == adjustBrightness(s.lights, 20, actions)
      IN Result(Some("Brightening the lights across the home."),
                [s EXCEPT !.lights = r.lights], r.actions)
  ELSE IF c.status THEN
    LET line(k) == s.lights[k].location \o ": "
                   \o (IF s.lights[k].on THEN "on" ELSE "off")
                   \o " at " \o NumToStr(s.lights[k].brightness) \o "%"
    IN Result(Some("Here is the lighting summary: "
                   \o line(LightOrder[1]) \o "; " \o line(LightOrder[2]) \o "; "
                   \o line(LightOrder[3]) \o "."),
              s, actions)
  ELSE Result(Null, s, actions)

(***************************************************************************)
(* ThermostatHandler                                                       *)
(***************************************************************************)
handleThermostatCommand(s, command, actions) ==
  LET c == Tests[command].thermostat
  IN
  IF c.numberMatch # Null THEN
    LET targetTemp == clamp(Number(c.numberMatch[1]), 55, 85)
    IN Result(Some("Setting the thermostat to " \o NumToStr(targetTemp)
                   \o " degrees Fahrenheit."),
              [s EXCEPT !.thermostat.temperature = targetTemp],
              Append(actions, "Set thermostat to " \o NumToStr(targetTemp) \o "^F"))
  ELSE IF c.cool THEN
    Result(Some("Switching the thermostat to cooling mode."),
           [s EXCEPT !.thermostat.mode = "cool"],
           Append(actions, "Thermostat set to cooling mode"))
  ELSE IF c.heat THEN
    Result(Some("Switching the thermostat to heating mode."),
           [s EXCEPT !.thermostat.mode = "heat"],
           Append(actions, "Thermostat set to heating mode"))
  ELSE IF c.eco THEN
    Result(Some("Thermostat is now in eco mode."),
           [s EXCEPT !.thermostat.mode = "eco"],
           Append(actions, "Thermostat set to eco mode"))
  ELSE IF c.off THEN
    Result(Some("Turning the thermostat off."),
           [s EXCEPT !.thermostat.mode = "off"],
           Append(actions, "Thermostat turned off"))
  ELSE IF c.status THEN
    Result(Some("The thermostat is set to " \o NumToStr(s.thermostat.temperature)
                \o " degrees in " \o s.thermostat.mode \o " mode."),
           s, actions)
  ELSE Result(Null, s, actions)

(***************************************************************************)
(* MusicHandler                                                            *)
(***************************************************************************)
\* a nullable string in a template literal, and its truthiness
templateText(v) == IF v = Null THEN "null" ELSE v[1]
truthy(v) == v # Null /\ v[1] # ""

handleMusicCommand(s, command, actions) ==
  LET c == Tests[command].music
  IN
  IF c.play THEN
    Result(Some("Starting " \o c.track \o " on the smart speakers."),
           [s EXCEPT !.music.playing = TRUE, !.music.track = Some(c.track)],
           Append(actions, "Now playing " \o c.track))
  ELSE IF c.pause THEN
    LET track == s.music.track
    IN Result(Some(IF truthy(track) THEN "Pausing " \o track[1] \o "."
                   ELSE "Pausing playback on the smart speakers."),
              [s EXCEPT !.music.playing = FALSE, !.music.track = track],
              Append(actions, "Paused the speakers"))
  ELSE IF c.skip THEN
    Result(Some("Skipping to the next track."), s,
           Append(actions, "Skipped to the next track"))
  ELSE IF c.volumeUp THEN
    LET v == clamp(s.music.volume + 10, 0, 100)
    IN Result(Some("Turning the music up."),
              [s EXCEPT !.music.volume = v],
              Append(actions, "Increased speaker volume to " \o NumToStr(v) \o "%"))
  ELSE IF c.volumeDown THEN
    LET v == clamp(s.music.volume - 10, 0, 100)
    IN Result(Some("Lowering the music volume."),
              [s EXCEPT !.music.volume = v],
              Append(actions, "Lowered speaker volume to " \o NumToStr(v) \o "%"))
  ELSE IF c.status THEN
    IF ~s.music.playing \/ ~truthy(s.music.track)
    THEN Result(Some("Nothing is currently playing."), s, actions)
    ELSE Result(Some("Currently playing " \o templateText(s.music.track) \o " at "
                     \o NumToStr(s.music.volume) \o "% volume."),
                s, actions)
  ELSE Result(Null, s, actions)

(***************************************************************************)
(* SecurityHandler                                                         *)
(***************************************************************************)
handleSecurityCommand(s, command, actions) ==
  LET c == Tests[command].security
  IN
  IF c.arm THEN
    LET mode == IF c.away THEN "away" ELSE "home"
    IN Result(Some("Arming the security system in " \o mode \o " mode."),
              [s EXCEPT !.security.armed = TRUE, !.security.mode = mode],
              Append(actions, "Armed security system in " \o mode \o " mode"))
  ELSE IF c.disarm THEN
    Result(Some("Disarming the security system."),
           [s EXCEPT !.security.armed = FALSE],
           Append(actions, "Disarmed security system"))
  ELSE IF c.status THEN
    Result(Some(IF s.security.armed
                THEN "The security system is armed in " \o s.security.mode \o " mode."
                ELSE "The security system is currently disarmed."),
           s, actions)
  ELSE Result(Null, s, actions)

(***************************************************************************)
(* ReminderHandler                                                         *)
(***************************************************************************)
\* an identifier that is the same at every call
randomUUIDRepeated(tasks) == 1

\* randomUUID(): an identifier that no task of the list carries (the least
\* one, identifiers being compared for equality only)
randomUUID(tasks) ==
  CHOOSE id \in 1..(Len(tasks) + 1) :
    /\ \A i \in 1..Len(tasks) : tasks[i].id # id
    /\ \A j \in 1..(id - 1) : \E i \in 1..Len(tasks) : tasks[i].id = j

\* the summary without the filter on completed
RECURSIVE activeSummaryUnfiltered(_)
activeSummaryUnfiltered(tasks) ==
  IF tasks = <<>> THEN ""
  ELSE IF Len(tasks) = 1 THEN "* " \o Head(tasks).title
  ELSE "* " \o Head(tasks).title \o " " \o activeSummaryUnfiltered(Tail(tasks))

\* tasks.filter(t => !t.completed).map(t => "* " + t.title).join(" ")
RECURSIVE activeSummary(_)
activeSummary(tasks) ==
  IF tasks = <<>> THEN ""
  ELSE LET rest == activeSummary(Tail(tasks))
           item == "* " \o Head(tasks).title
       IN IF Head(tasks).completed THEN rest
          ELSE IF \A i \in 2..Len(tasks) : tasks[i].completed THEN item
          ELSE item \o " " \o rest

\* t.title.toLowerCase().includes(query)
titleIncludes(task, query) == includes(toLowerCase(task.title), query)

\* the last task whose title includes the query
findTaskLast(tasks, query) ==
  IF \E i \in 1..Len(tasks) : titleIncludes(tasks[i], query)
  THEN CHOOSE k \in 1..Len(tasks) :
         /\ titleIncludes(tasks[k], query)
         /\ \A j \in (k + 1)..Len(tasks) : ~titleIncludes(tasks[j], query)
  ELSE 0

\* the first task not yet completed whose title includes the query
findTaskNotCompleted(tasks, query) ==
  IF \E i \in 1..Len(tasks) : titleIncludes(tasks[i], query) /\ ~tasks[i].completed
  THEN CHOOSE k \in 1..Len(tasks) :
         /\ titleIncludes(tasks[k], query) /\ ~tasks[k].completed
         /\ \A j \in 1..(k - 1) :
              ~(titleIncludes(tasks[j], query) /\ ~tasks[j].completed)
  ELSE 0

\* tasks.find(...): the index of the first task whose title includes the
\* query, 0 for undefined
findTask(tasks, query) ==
  IF \E i \in 1..Len(tasks) : titleIncludes(tasks[i], query)
  THEN CHOOSE k \in 1..Len(tasks) :
         /\ titleIncludes(tasks[k], query)
         /\ \A j \in 1..(k - 1) : ~titleIncludes(tasks[j], query)
  ELSE 0

NotFoundReply == "I couldn't find a matching reminder to complete."

notFound(s, actions) == Result(Some(NotFoundReply), s, actions)

\* if (task) { task.completed = true; ... } and the not-found return
completeTask(s, i, actions) ==
  IF i > 0
  THEN Result(Some("Marked " \o s.tasks[i].title \o " as complete."),
              [s EXCEPT !.tasks[i].completed = TRUE],
              Append(actions, "Completed reminder: " \o s.tasks[i].title))
  ELSE notFound(s, actions)

handleTaskCommand(s, command, actions) ==
  LET c == Tests[command].task
  IN
  IF c.add THEN
    LET task == [id |-> randomUUID(s.tasks), title |-> capitalize(c.reminder),
                 completed |-> FALSE]
    IN Result(Some("Reminder added for " \o task.title \o "."),
              [s EXCEPT !.tasks = Append(s.tasks, task)],
              Append(actions, "Created reminder: " \o task.title))
  ELSE IF c.list THEN
    IF Len(s.tasks) = 0
    THEN Result(Some("You have no reminders right now."), s, actions)
    ELSE Result(Some("Here are your active reminders: " \o activeSummary(s.tasks)),
                s, actions)
  ELSE IF c.complete THEN
    IF c.query = Null THEN notFound(s, actions)
    ELSE completeTask(s, findTask(s.tasks, c.query[1]), actions)
  ELSE Result(Null, s, actions)

(***************************************************************************)
(* Dispatcher and fallback chain                                           *)
(***************************************************************************)
\* the handlers with ThermostatHandler probed first
handlersThermostatFirst ==
  <<"handleThermostatCommand", "handleLightCommand", "handleMusicCommand",
    "handleSecurityCommand", "handleTaskCommand">>

handlers ==
  <<"handleLightCommand", "handleThermostatCommand", "handleMusicCommand",
    "handleSecurityCommand", "handleTaskCommand">>

callHandler(name, s, command, actions) ==
  CASE name = "handleLightCommand"      -> handleLightCommand(s, command, actions)
    [] name = "handleThermostatCommand" -> handleThermostatCommand(s, command, actions)
    [] name = "handleMusicCommand"      -> handleMusicCommand(s, command, actions)
    [] name = "handleSecurityCommand"   -> handleSecurityCommand(s, command, actions)
    [] name = "handleTaskCommand"       -> handleTaskCommand(s, command, actions)

\* for (const handler of handlers) { reply = handler(...); if (reply) break; }
RECURSIVE probeHandlers(_, _, _, _)
nextHandler(i, r, command) ==
  IF truthy(r.reply) THEN r
  ELSE probeHandlers(i + 1, r.s, command, r.actions)

probeHandlers(i, s, command, actions) ==
  IF i > Len(handlers) THEN Result(Null, s, actions)
  ELSE nextHandler(i, callHandler(handlers[i], s, command, actions), command)

buildStatusReport(s) ==
  LET line(k) == s.lights[k].location \o " lights "
                 \o (IF s.lights[k].on THEN "on" ELSE "off")
                 \o " at " \o NumToStr(s.lights[k].brightness) \o "%"
      lightSummary == line(LightOrder[1]) \o "; " \o line(LightOrder[2]) \o "; "
                      \o line(LightOrder[3])
  IN "Lighting: " \o lightSummary \o "."
     \o " " \o "Thermostat: " \o NumToStr(s.thermostat.temperature) \o "^F in "
               \o s.thermostat.mode \o " mode."
     \o " " \o "Music: "
               \o (IF s.music.playing
                   THEN "Playing " \o templateText(s.music.track) \o " at "
                        \o NumToStr(s.music.volume) \o "%"
                   ELSE "Idle") \o "."
     \o " " \o "Security: "
               \o (IF s.security.armed
                   THEN "Armed (" \o s.security.mode \o ")"
                   ELSE "Disarmed") \o "."

PromptReply == "Please say something so I can help."
ResetReply == "I've reset the smart home to its default configuration."
FallbackReply ==
  "I'm not sure how to handle that yet. Try asking about lights, thermostat, music, security, or reminders."

\* if (!reply) { ... }: the fallback chain, on the result r of the handler loop;
\* `reset` tells that the engine's parts were replaced by those of the source
\* of Object.assign, `sameObjects` that the source was the defaults themselves
noReset(reply, r) ==
  [reply |-> reply, s |-> r.s, actions |-> r.actions,
   reset |-> FALSE, sameObjects |-> FALSE]

withReset(source, r) ==
  [reply |-> ResetReply, s |-> source.value,
   actions |-> Append(r.actions, "Reset environment to defaults"),
   reset |-> TRUE, sameObjects |-> source.sameObjects]

fallback(r, c) ==
  IF truthy(r.reply) THEN noReset(r.reply[1], r)
  ELSE IF c.status THEN noReset(buildStatusReport(r.s), r)
  ELSE IF c.reset THEN withReset(deepClone(defaultState), r)
  ELSE noReset(FallbackReply, r)

\* the handler loop and the fallback chain, on a non-empty normalized command
dispatch(s, command) ==
  fallback(probeHandlers(1, s, command, <<>>), Tests[command].fallback)

\* the snapshot of the empty-input return: { ...smartHomeState, lastUpdated }
spreadState(s, t) == Holder([s EXCEPT !.lastUpdated = t], Parts)

\* the snapshot of the normal return: every part copied
copyState(s) == Holder(s, {})

\* the values new Date() can return: the clock has not moved, or has advanced
Times == {t \in {now, now + 1} : t <= MaxClock}

processCommand(rawCommand) ==
  LET command == Normalized[rawCommand]
  IN
  /\ lastCall' = [op |-> "processCommand", arg |-> rawCommand]
  /\ IF command = ""
     THEN \E t \in Times :
          /\ now' = t
          /\ response' = [reply |-> PromptReply, actions |-> <<>>,
                          state |-> spreadState(smartHomeState, t)]
          /\ UNCHANGED <<smartHomeState, defaultState>>
     ELSE \E d \in {dispatch(smartHomeState, command)} :
          \E t \in Times :
          \E final \in {[d.s EXCEPT !.lastUpdated = t]} :
             /\ Len(final.tasks) <= MaxTasks
             /\ now' = t
             /\ smartHomeState' = final
             /\ defaultState' =
                  IF ~d.reset THEN defaultState
                  ELSE IF d.sameObjects
                       THEN [defaultState EXCEPT !.shared = Parts]
                       ELSE Holder(View(defaultState), {})
             /\ response' = [reply |-> d.reply, actions |-> d.actions,
                             state |-> copyState(final)]

(***************************************************************************)
(* A caller that writes into the snapshot it was handed: one write per     *)
(* part.  A write to a part the snapshot shares with the engine is a write *)
(* to the engine's object.                                                 *)
(***************************************************************************)
callerWrite(v, part) ==
  CASE part = "lights"     -> [v EXCEPT !.lights["living"].on = ~v.lights["living"].on]
    [] part = "thermostat" -> [v EXCEPT !.thermostat.mode = "off"]
    [] part = "music"      -> [v EXCEPT !.music.volume = 0]
    [] part = "security"   -> [v EXCEPT !.security.armed = ~v.security.armed]
    [] part = "tasks"      -> [v EXCEPT !.tasks = <<>>]

MutateSnapshot(part) ==
  \E written \in {callerWrite(View(response.state), part)} :
     /\ lastCall' = [op |-> "mutateSnapshot", arg |-> part]
     /\ response' = [response EXCEPT !.state = Holder(written, response.state.shared)]
     /\ smartHomeState' =
          IF part \in response.state.shared
          THEN [smartHomeState EXCEPT ![part] = written[part]]
          ELSE smartHomeState
     /\ UNCHANGED <<now, defaultState, page, requests>>

\* a call of processCommand made directly, with no page involved
directCall(rawCommand) ==
  /\ processCommand(rawCommand)
  /\ UNCHANGED <<page, requests>>

(***************************************************************************)
(* The page: Home (part_000) and the route POST /api/agent.  A handler     *)
(* reads isProcessing from the render that created it: handleSubmit and    *)
(* startListening are created anew by every render, whereas the bootstrap  *)
(* effect and recognition.onresult are created once, by the effects of the *)
(* first render, and keep that render's sendCommand, in which isProcessing *)
(* is false.                                                               *)
(***************************************************************************)
\* useState(false) of the first render
FirstRenderIsProcessing == FALSE

RequestIds == 1..MaxRequests

freeId == CHOOSE id \in RequestIds : \A r \in requests : r.id # id

\* sendCommand as created by a render in which isProcessing was seen: the
\* page p and the requests as the call leaves them, up to its await
sendCommand(p, rawCommand, seenIsProcessing) ==
  IF trim(rawCommand) = "" \/ seenIsProcessing
  THEN [page |-> p, requests |-> requests]
  ELSE [page |-> [p EXCEPT !.isProcessing = TRUE],
        requests |-> requests \cup
          {[id |-> freeId, command |-> trim(rawCommand), phase |-> "sent"]}]

\* the page and the requests become those of sent
Becomes(sent) ==
  /\ Cardinality(sent.requests) <= MaxRequests
  /\ page' = sent.page
  /\ requests' = sent.requests

UnchangedEngine == UNCHANGED <<now, smartHomeState, defaultState, response, lastCall>>

\* the effects of the first render: recognition is set up, bootstrap runs
Mount ==
  /\ ~page.mounted
  /\ Cardinality(requests) < MaxRequests
  /\ Becomes(sendCommand([page EXCEPT !.mounted = TRUE], BootstrapCommand,
                         FirstRenderIsProcessing))
  /\ UnchangedEngine

\* the form is submitted: handleSubmit of the latest render
Submit(rawCommand) ==
  /\ page.mounted
  /\ Cardinality(requests) < MaxRequests
  /\ Becomes(sendCommand(page, rawCommand, page.isProcessing))
  /\ UnchangedEngine

\* the microphone button: startListening of the latest render
StartListening ==
  /\ page.mounted
  /\ ~page.isListening
  /\ ~page.isProcessing
  /\ page' = [page EXCEPT !.isListening = TRUE]
  /\ UNCHANGED requests
  /\ UnchangedEngine

StopListening ==
  /\ page.isListening
  /\ page' = [page EXCEPT !.isListening = FALSE]
  /\ UNCHANGED requests
  /\ UnchangedEngine

\* recognition.onresult with a final result: recognition stops, and
\* finalizeCommand of the first render sends the transcript
SpeechResult(transcript) ==
  /\ page.isListening
  /\ Cardinality(requests) < MaxRequests
  /\ Becomes(sendCommand([page EXCEPT !.isListening = FALSE], transcript,
                         FirstRenderIsProcessing))
  /\ UnchangedEngine

\* POST: the route hands body.command to processCommand and answers
POST(request) ==
  /\ request.phase = "sent"
  /\ processCommand(request.command)
  /\ requests' = (requests \ {request}) \cup {[request EXCEPT !.phase = "answered"]}
  /\ UNCHANGED page

\* the request fails: fetch rejects, or the route answers with an error
Fail(request) ==
  /\ request.phase = "sent"
  /\ requests' = (requests \ {request}) \cup {[request EXCEPT !.phase = "failed"]}
  /\ UNCHANGED page
  /\ UnchangedEngine

\* the await in sendCommand resumes: try or catch, then finally
Settle(request) ==
  /\ request.phase \in {"answered", "failed"}
  /\ requests' = requests \ {request}
  /\ page' = [page EXCEPT !.isProcessing = FALSE]
  /\ UnchangedEngine

(***************************************************************************)
(* Specifications                                                          *)
(***************************************************************************)
Init ==
  /\ now = 0
  /\ smartHomeState = defaultValues
  /\ defaultState = Holder(defaultValues, {})
  /\ response = [reply |-> "", actions |-> <<>>, state |-> Holder(defaultValues, {})]
  /\ lastCall = [op |-> "none", arg |-> ""]
  /\ page = [mounted |-> FALSE, isProcessing |-> FALSE, isListening |-> FALSE]
  /\ requests = {}

Next == \E rawCommand \in RawCommands : directCall(rawCommand)

Spec == Init /\ [][Next]_vars

NextCaller ==
  \/ \E rawCommand \in CallerCommands : directCall(rawCommand)
  \/ \E part \in Parts : MutateSnapshot(part)

SpecCaller == Init /\ [][NextCaller]_vars

NextBounds == \E rawCommand \in BoundsCommands : directCall(rawCommand)

SpecBounds == Init /\ [][NextBounds]_vars

NextQuery == \E rawCommand \in QueryCommands : directCall(rawCommand)

SpecQuery == Init /\ [][NextQuery]_vars

NextLight == \E rawCommand \in LightCommands : directCall(rawCommand)

SpecLight == Init /\ [][NextLight]_vars

NextChain == \E rawCommand \in ChainCommands : directCall(rawCommand)

SpecChain == Init /\ [][NextChain]_vars

NextPercent == \E rawCommand \in PercentCommands : directCall(rawCommand)

SpecPercent == Init /\ [][NextPercent]_vars

NextTask == \E rawCommand \in TaskCommands : directCall(rawCommand)

SpecTask == Init /\ [][NextTask]_vars

NextThermostat == \E rawCommand \in ThermostatCommands : directCall(rawCommand)

SpecThermostat == Init /\ [][NextThermostat]_vars

NextPage ==
  \/ Mount
  \/ \E rawCommand \in PageCommands : Submit(rawCommand)
  \/ StartListening
  \/ StopListening
  \/ \E transcript \in PageCommands : SpeechResult(transcript)
  \/ \E request \in requests : POST(request)
  \/ \E request \in requests : Fail(request)
  \/ \E request \in requests : Settle(request)

SpecPage == Init /\ [][NextPage]_vars

(***************************************************************************)
(* Vocabulary of the properties                                            *)
(***************************************************************************)
\* the five domain parts of a state, without lastUpdated
Domain(s) ==
  [ lights |-> s.lights, thermostat |-> s.thermostat, music |-> s.music,
    security |-> s.security, tasks |-> s.tasks ]

\* the last step was a call of processCommand whose normalized text is text
Called(text) ==
  /\ lastCall.op = "processCommand"
  /\ Normalized[lastCall.arg] = text

\* this step is a call of processCommand whose normalized text is text
Calls(text) ==
  /\ lastCall'.op = "processCommand"
  /\ Normalized[lastCall'.arg] = text

\* every handler declines the text (the handlers decide on the text alone)
DeclinedByAll(text) == ~truthy(probeHandlers(1, defaultValues, text, <<>>).reply)

ArmedAwayReply == "The security system is armed in away mode."
DisarmedReply == "The security system is currently disarmed."
NothingPlayingReply == "Nothing is currently playing."

AddWaterCommand == "add a reminder to water the plants"
CompleteWaterCommand == "complete water the plants"
ListCommand == "list my reminders"

(***************************************************************************)
(* C1: a write into any part of a returned snapshot leaves the engine's    *)
(* state as it was, whatever call returned the snapshot (empty input       *)
(* included).                                                              *)
(***************************************************************************)
C1_SnapshotIsIndependent ==
  [][lastCall'.op = "mutateSnapshot" => smartHomeState' = smartHomeState]_vars

(***************************************************************************)
(* C2: after "reset everything" the five parts are the defaults and the    *)
(* task list is empty.                                                     *)
(***************************************************************************)
C2_ResetEverythingRestoresDefaults ==
  Called("reset everything") =>
    /\ Domain(smartHomeState) = Domain(defaultValues)
    /\ smartHomeState.tasks = <<>>

(***************************************************************************)
(* C3: a command that every handler declines, with "reset" and without     *)
(* "status" and "everything", leaves the five parts at the defaults with   *)
(* no task and logs exactly one action; and no command ever changes the    *)
(* defaults.                                                               *)
(***************************************************************************)
IsResetCommand(text) ==
  /\ text # ""
  /\ DeclinedByAll(text)
  /\ includes(text, "reset")
  /\ ~includes(text, "status")
  /\ ~includes(text, "everything")

ResetCommandTexts == {text \in CommandTexts : IsResetCommand(text)}

C3_ResetRestoresDefaults ==
  /\ Domain(View(defaultState)) = Domain(defaultValues)
  /\ (lastCall.op = "processCommand" /\ Normalized[lastCall.arg] \in ResetCommandTexts) =>
       /\ Domain(smartHomeState) = Domain(defaultValues)
       /\ smartHomeState.tasks = <<>>
       /\ Len(response.actions) = 1

\* a reset at a later time than the start
C3_Witness ==
  /\ Called("reset")
  /\ response.reply = ResetReply
  /\ smartHomeState.lastUpdated > 0

(***************************************************************************)
(* C4: "security status" right after "arm the house away" replies that the *)
(* system is armed in away mode, and right after "disarm" that it is       *)
(* currently disarmed.                                                     *)
(***************************************************************************)
C4_ArmDisarmRoundTrip ==
  [][Calls("security status") =>
       /\ Called("arm the house away") => response'.reply = ArmedAwayReply
       /\ Called("disarm") => response'.reply = DisarmedReply]_vars

(***************************************************************************)
(* C5: "disarm" sets security.armed to false and keeps security.mode.      *)
(***************************************************************************)
C5_DisarmKeepsMode ==
  [][Calls("disarm") =>
       /\ smartHomeState'.security.armed = FALSE
       /\ smartHomeState'.security.mode = smartHomeState.security.mode]_vars

(***************************************************************************)
(* C6: "security status" and "alarm status" change no part of the state,   *)
(* log no action and report the current armed/mode values.                 *)
(***************************************************************************)
SecurityReport(s) ==
  IF s.security.armed
  THEN "The security system is armed in " \o s.security.mode \o " mode."
  ELSE DisarmedReply

C6_SecurityStatusReadOnly ==
  [][(Calls("security status") \/ Calls("alarm status")) =>
       /\ Domain(smartHomeState') = Domain(smartHomeState)
       /\ response'.actions = <<>>
       /\ response'.reply = SecurityReport(smartHomeState)]_vars

(***************************************************************************)
(* C7: "music status" and "what's playing" change no part of the state,    *)
(* log no action, and reply "Nothing is currently playing." when music is  *)
(* not playing or no track is recorded.                                    *)
(***************************************************************************)
C7_MusicStatusReadOnly ==
  [][(Calls("music status") \/ Calls("what's playing")) =>
       /\ Domain(smartHomeState') = Domain(smartHomeState)
       /\ response'.actions = <<>>
       /\ (~smartHomeState.music.playing \/ ~truthy(smartHomeState.music.track))
            => response'.reply = NothingPlayingReply]_vars

(***************************************************************************)
(* C8: "add a reminder to water the plants", from a state with no task of  *)
(* the new title, appends exactly one task, not completed, and changes no  *)
(* existing task.  The title of the new task is TitleOfC8.                 *)
(***************************************************************************)
AddsOneTaskTitled(title) ==
  (Calls(AddWaterCommand)
   /\ \A i \in 1..Len(smartHomeState.tasks) : smartHomeState.tasks[i].title # title) =>
    /\ Len(smartHomeState'.tasks) = Len(smartHomeState.tasks) + 1
    /\ SubSeq(smartHomeState'.tasks, 1, Len(smartHomeState.tasks)) = smartHomeState.tasks
    /\ smartHomeState'.tasks[Len(smartHomeState'.tasks)].title = title
    /\ smartHomeState'.tasks[Len(smartHomeState'.tasks)].completed = FALSE

\* C8 as claimed: the title of the new task is "Water the plants"
C8_AddsWaterThePlants == [][AddsOneTaskTitled("Water the plants")]_vars

\* C8 with the title the code gives: everything after the last "reminder",
\* trimmed, with its first character in upper case: "To water the plants"
C8_AddsToWaterThePlants == [][AddsOneTaskTitled("To water the plants")]_vars

\* the add has acted on a list that held another task, already completed
C8_Witness ==
  /\ Called(AddWaterCommand)
  /\ smartHomeState.tasks =
       << [id |-> 1, title |-> "Buy milk", completed |-> FALSE],
          [id |-> 2, title |-> "To water the plants", completed |-> FALSE] >>

(***************************************************************************)
(* C9: after the add on an empty task list, "complete water the plants"    *)
(* marks that task completed, and the reply to a following "list my        *)
(* reminders" does not contain the task's title.                           *)
(***************************************************************************)
C9_CompleteThenList ==
  [][/\ (Called(AddWaterCommand) /\ Len(smartHomeState.tasks) = 1
         /\ Calls(CompleteWaterCommand)) =>
          /\ Len(smartHomeState'.tasks) = 1
          /\ smartHomeState'.tasks[1].completed
          /\ smartHomeState'.tasks[1].title = smartHomeState.tasks[1].title
     /\ (Called(CompleteWaterCommand) /\ Len(smartHomeState.tasks) = 1
         /\ smartHomeState.tasks[1].completed
         /\ Calls(ListCommand)) =>
          /\ ~includes(response'.reply, smartHomeState.tasks[1].title)
          /\ ~includes(toLowerCase(response'.reply), "water the plants")]_vars

C9_Witness ==
  /\ Called(ListCommand)
  /\ Len(smartHomeState.tasks) = 1
  /\ smartHomeState.tasks[1].completed
  /\ response.reply = "Here are your active reminders: "

(***************************************************************************)
(* C10: a command that every handler declines and that contains none of    *)
(* "status", "everything", "reset" gets the fixed fallback reply and an    *)
(* empty action list, and the five parts stay as they were.                *)
(***************************************************************************)
IsUnknownCommand(text) ==
  /\ text # ""
  /\ DeclinedByAll(text)
  /\ ~includes(text, "status")
  /\ ~includes(text, "everything")
  /\ ~includes(text, "reset")

UnknownCommandTexts == {text \in CommandTexts : IsUnknownCommand(text)}

C10_UnknownCommandChangesNothing ==
  [][(lastCall'.op = "processCommand" /\ Normalized[lastCall'.arg] \in UnknownCommandTexts) =>
       /\ response'.reply = FallbackReply
       /\ response'.actions = <<>>
       /\ Domain(smartHomeState') = Domain(smartHomeState)
       /\ Domain(View(response'.state)) = Domain(smartHomeState)]_vars

C10_Witness ==
  /\ Called("frobnicate the quux")
  /\ response.reply = FallbackReply
  /\ Domain(smartHomeState) # Domain(defaultValues)
  /\ smartHomeState.lastUpdated > 0

(***************************************************************************)
(* C11: in every reachable state every light's brightness is in 0..100,    *)
(* the music volume is in 0..100 and the thermostat temperature is in      *)
(* 55..85, however far outside a requested value or delta would push it.   *)
(***************************************************************************)
C11_ValuesWithinBounds ==
  /\ \A key \in LightKeys : smartHomeState.lights[key].brightness \in 0..100
  /\ smartHomeState.music.volume \in 0..100
  /\ smartHomeState.thermostat.temperature \in 55..85

\* the kitchen was dimmed at 10 or below, and the other values sit on limits
C11_Witness ==
  /\ Called("dim the kitchen")
  /\ smartHomeState.lights["kitchen"].brightness = 0
  /\ smartHomeState.lights["living"].brightness = 100
  /\ smartHomeState.lights["bedroom"].brightness = 100
  /\ smartHomeState.music.volume = 100
  /\ smartHomeState.thermostat.temperature = 55

(***************************************************************************)
(* C12: a status query (light status, thermostat or temperature status,    *)
(* music status, security or alarm status, the reminder list, the full     *)
(* status report) issued twice in a row: the second response has the state *)
(* of the first apart from lastUpdated, the same reply and the same, empty,*)
(* action list.                                                            *)
(***************************************************************************)
StatusQueries ==
  { "light status", "thermostat status", "temperature status", "music status",
    "security status", "alarm status", "list my reminders",
    "give me a status report" }

C12_StatusQueryTwice ==
  [][\A query \in StatusQueries :
       Called(query) /\ Calls(query) =>
         /\ Domain(View(response.state))' = Domain(View(response.state))
         /\ response'.reply = response.reply
         /\ response'.actions = response.actions
         /\ response'.actions = <<>>]_vars

(***************************************************************************)
(* C13: from every reachable state "turn on the lounge" resolves to the    *)
(* living light and gives the reply, the actions and the resulting state   *)
(* of "turn on the living room"; no other light is affected.               *)
(***************************************************************************)
LoungeCommand == "turn on the lounge"
LivingRoomCommand == "turn on the living room"

\* this step has the outcome d and touches the living light only
StepMatchesOnLiving(d) ==
  /\ response'.reply = d.reply
  /\ response'.actions = d.actions
  /\ Domain(smartHomeState') = Domain(d.s)
  /\ Domain(View(response.state))' = Domain(d.s)
  /\ smartHomeState'.lights["living"].on
  /\ \A key \in LightKeys \ {"living"} :
        smartHomeState'.lights[key] = smartHomeState.lights[key]

C13_LoungeIsLivingRoom ==
  [][Calls(LoungeCommand) =>
       StepMatchesOnLiving(dispatch(smartHomeState, LivingRoomCommand))]_vars

\* the lounge was turned on while the kitchen light was on and dimmed
C13_Witness ==
  /\ Called(LoungeCommand)
  /\ smartHomeState.lights["living"].on
  /\ smartHomeState.lights["living"].brightness = 60
  /\ smartHomeState.lights["kitchen"].on
  /\ smartHomeState.lights["kitchen"].brightness = 30
  /\ response.reply = "Turning on the living room lights."

(***************************************************************************)
(* C14: every call of processCommand, with empty or whitespace-only input, *)
(* an unknown command or a read-only query as well, rewrites the engine's  *)
(* stored lastUpdated to the time of the call, and the returned snapshot   *)
(* carries the same stamp.                                                 *)
(***************************************************************************)
C14_EveryCallStampsLastUpdated ==
  lastCall.op = "processCommand" =>
    /\ smartHomeState.lastUpdated = now
    /\ View(response.state).lastUpdated = now

\* the same for the calls whose normalized command is not empty
C14_NonEmptyCallStampsLastUpdated ==
  (lastCall.op = "processCommand" /\ ~Called("")) =>
    /\ smartHomeState.lastUpdated = now
    /\ View(response.state).lastUpdated = now

(***************************************************************************)
(* C15: empty or whitespace-only input is handled before dispatch: no      *)
(* handler and no fallback runs, the reply is the prompt text, the action  *)
(* list is empty, and lights, thermostat, music, security and tasks are    *)
(* unchanged.                                                              *)
(***************************************************************************)
\* the raw input is empty or holds white space only
IsBlank(rawCommand) ==
  \A i \in 1..Len(rawCommand) : IsSpace(CharAt(rawCommand, i))

C15_BlankInputOnlyPrompts ==
  [][(lastCall'.op = "processCommand" /\ IsBlank(lastCall'.arg)) =>
       /\ response'.reply = PromptReply
       /\ response'.actions = <<>>
       /\ Domain(smartHomeState') = Domain(smartHomeState)
       /\ Domain(View(response.state))' = Domain(smartHomeState)
       /\ defaultState' = defaultState]_vars

\* the empty string was sent while the house was armed, with a light on and
\* a task
C15_Witness ==
  /\ lastCall.op = "processCommand"
  /\ lastCall.arg = ""
  /\ response.reply = PromptReply
  /\ smartHomeState.security.armed
  /\ smartHomeState.lights["living"].on
  /\ Len(smartHomeState.tasks) = 1

(***************************************************************************)
(* C16: a command containing both "turn off" and "thermostat" (such as     *)
(* "turn off the thermostat") sets thermostat.mode to off and leaves the   *)
(* lights unchanged.                                                       *)
(***************************************************************************)
ThermostatOffTexts == {text \in CommandTexts : Tests[text].thermostat.off}

C16_TurnOffThermostat ==
  [][\A text \in ThermostatOffTexts :
       Calls(text) =>
         /\ smartHomeState'.thermostat.mode = "off"
         /\ smartHomeState'.lights = smartHomeState.lights]_vars

(***************************************************************************)
(* C17: a command that reaches MusicHandler and contains "play" sets       *)
(* music.playing to true and stores as track the text following "play "    *)
(* with the word "music" removed and the result trimmed; whenever nothing  *)
(* remains (as for "play" and "play music") the stored track is            *)
(* "playlist".                                                             *)
(***************************************************************************)
\* LightHandler and ThermostatHandler decline the text (they decide on the
\* text alone)
ReachesMusicHandler(text) ==
  /\ ~truthy(callHandler("handleLightCommand", defaultValues, text, <<>>).reply)
  /\ ~truthy(callHandler("handleThermostatCommand", defaultValues, text, <<>>).reply)

PlayTexts ==
  {text \in CommandTexts : includes(text, "play") /\ ReachesMusicHandler(text)}

\* what remains of the text after "play ", without "music", trimmed
RemainderAfterPlay(rest) ==
  IF rest = Null THEN "" ELSE trim(replace(rest[1], "music", ""))

TrackOrPlaylist(remainder) == IF remainder = "" THEN "playlist" ELSE remainder

C17_PlayStoresTrack ==
  [][\A text \in PlayTexts :
       Calls(text) =>
         /\ smartHomeState'.music.playing
         /\ smartHomeState'.music.track =
              Some(TrackOrPlaylist(RemainderAfterPlay(matchRest(text, "play"))))]_vars

\* the same with the track the code stores when nothing remains after
\* "play ": the empty string
C17_PlayStoresTrackOrEmpty ==
  [][\A text \in PlayTexts :
       Calls(text) =>
         /\ smartHomeState'.music.playing
         /\ smartHomeState'.music.track =
              IF matchRest(text, "play") = Null THEN Some("playlist")
              ELSE Some(RemainderAfterPlay(matchRest(text, "play")))]_vars

(***************************************************************************)
(* C18: for every command the handlers are probed in the fixed order       *)
(* Light, Thermostat, Music, Security, Reminder and probing stops at the   *)
(* first handler that returns a reply; a handler that declines changes no  *)
(* state and adds no action; so a call changes at most one of the domains  *)
(* lights, thermostat, music, security, tasks (the reset fallback          *)
(* excepted) and leaves the others unchanged.                              *)
(***************************************************************************)
FixedOrder ==
  <<"handleLightCommand", "handleThermostatCommand", "handleMusicCommand",
    "handleSecurityCommand", "handleTaskCommand">>

\* the result of the i-th handler of the fixed order, called on its own
ProbeAlone(i, s, text) == callHandler(FixedOrder[i], s, text, <<>>)

RepliesAlone(i, s, text) == truthy(ProbeAlone(i, s, text).reply)

\* the first handler of the fixed order that replies, 0 if all decline
FirstReplying(s, text) ==
  IF \E i \in 1..Len(FixedOrder) : RepliesAlone(i, s, text)
  THEN CHOOSE i \in 1..Len(FixedOrder) :
         /\ RepliesAlone(i, s, text)
         /\ \A j \in 1..(i - 1) : ~RepliesAlone(j, s, text)
  ELSE 0

DeclineChangesNothing(r, s) ==
  ~truthy(r.reply) => (r.s = s /\ r.actions = <<>>)

ChangedParts(s, t) == {part \in Parts : s[part] # t[part]}

\* this step returns what the handler returned in r, and stores its state
StepIsResultOf(r) ==
  /\ response'.reply = r.reply[1]
  /\ response'.actions = r.actions
  /\ Domain(smartHomeState') = Domain(r.s)

StepOfChain(s, text, first) ==
  /\ \A i \in 1..Len(FixedOrder) : DeclineChangesNothing(ProbeAlone(i, s, text), s)
  /\ first > 0 => StepIsResultOf(ProbeAlone(first, s, text))
  /\ first = 0 => (ChangedParts(s, smartHomeState') = {} \/ response'.reply = ResetReply)
  /\ response'.reply # ResetReply => Cardinality(ChangedParts(s, smartHomeState')) <= 1

C18_FirstReplyingHandlerOnly ==
  [][\A text \in CommandTexts \ {""} :
       Calls(text) =>
         StepOfChain(smartHomeState, text, FirstReplying(smartHomeState, text))]_vars

\* "turn off the thermostat", which LightHandler and ThermostatHandler both
\* answer, was taken by LightHandler while music was playing
C18_Witness ==
  /\ Called("turn off the thermostat")
  /\ response.reply = "Turning off every light in the home."
  /\ Len(response.actions) = 3
  /\ smartHomeState.thermostat.mode = "eco"
  /\ smartHomeState.music.playing

(***************************************************************************)
(* C19: after any brightness adjustment command (dim or lower, brighten or *)
(* increase, an explicit percentage; for one room or for all rooms) every  *)
(* light whose brightness was adjusted has on = (brightness > 0); and any  *)
(* turn-off command leaves every affected light with on = FALSE.           *)
(***************************************************************************)
\* the command is a turn-off command of LightHandler
IsTurnOff(c) == ~c.turnOn /\ c.turnOff

\* the command is taken by the percentage, dim or brighten branch
IsAdjustment(c) ==
  /\ ~c.turnOn /\ ~c.turnOff
  /\ \/ c.brightnessMatch # Null /\ c.locationKey # Null
     \/ c.dim
     \/ c.brighten

\* the command is taken by the dim branch with no room identified
IsDimAll(c) ==
  /\ ~c.turnOn /\ ~c.turnOff
  /\ c.locationKey = Null
  /\ c.dim

\* the lights the command acts on: the identified room's, or all
Affected(c) == IF c.locationKey # Null THEN {c.locationKey[1]} ELSE LightKeys

OnIffBright(light) == light.on = (light.brightness > 0)

TurnOffStep(c) ==
  IsTurnOff(c) => \A key \in Affected(c) : ~smartHomeState'.lights[key].on

C19_AdjustmentSetsOnFlag ==
  [][\A text \in CommandTexts \ {""} :
       Calls(text) =>
         /\ IsAdjustment(Tests[text].light) =>
              \A key \in Affected(Tests[text].light) :
                 OnIffBright(smartHomeState'.lights[key])
         /\ TurnOffStep(Tests[text].light)]_vars

\* the same, except that dimming all rooms leaves a light that is off off
C19_AdjustmentSetsOnFlagUnlessDimmedOff ==
  [][\A text \in CommandTexts \ {""} :
       Calls(text) =>
         /\ IsAdjustment(Tests[text].light) =>
              \A key \in Affected(Tests[text].light) :
                 IF IsDimAll(Tests[text].light) /\ ~smartHomeState.lights[key].on
                 THEN ~smartHomeState'.lights[key].on
                 ELSE OnIffBright(smartHomeState'.lights[key])
         /\ TurnOffStep(Tests[text].light)]_vars

\* all rooms were dimmed while the living room light was on and the bedroom
\* light was off: the first went out at 0, the second stays off at 5
C19_Witness ==
  /\ Called("dim the lights")
  /\ ~smartHomeState.lights["living"].on
  /\ smartHomeState.lights["living"].brightness = 0
  /\ smartHomeState.lights["kitchen"].on
  /\ ~smartHomeState.lights["bedroom"].on
  /\ smartHomeState.lights["bedroom"].brightness = 5

(***************************************************************************)
(* C20: a "turn on" or "switch on" command with an identified room sets    *)
(* that light on with brightness max(previous brightness, 60), leaves the  *)
(* other lights unchanged and logs exactly one action; with no room it     *)
(* sets on = TRUE for all three lights without changing any brightness and *)
(* logs one action per light.  The turn-on branch wins over a percentage   *)
(* given in the same command ("turn on the kitchen lights at 30%" does not *)
(* set the brightness to 30).                                              *)
(***************************************************************************)
TurnOnTexts == {text \in CommandTexts : Tests[text].light.turnOn}

AtLeast60(brightness) == IF brightness >= 60 THEN brightness ELSE 60

TurnOnRoomStep(key) ==
  /\ smartHomeState'.lights[key].on
  /\ smartHomeState'.lights[key].brightness =
       AtLeast60(smartHomeState.lights[key].brightness)
  /\ \A other \in LightKeys \ {key} :
       smartHomeState'.lights[other] = smartHomeState.lights[other]
  /\ Len(response'.actions) = 1

TurnOnAllStep ==
  /\ \A key \in LightKeys :
       /\ smartHomeState'.lights[key].on
       /\ smartHomeState'.lights[key].brightness = smartHomeState.lights[key].brightness
  /\ Len(response'.actions) = Cardinality(LightKeys)

C20_TurnOn ==
  [][\A text \in TurnOnTexts :
       Calls(text) =>
         IF Tests[text].light.locationKey # Null
         THEN TurnOnRoomStep(Tests[text].light.locationKey[1])
         ELSE TurnOnAllStep]_vars

\* "turn on the kitchen lights at 30%" turned the kitchen light on at 60,
\* with the bedroom light still off
C20_Witness ==
  /\ Called("turn on the kitchen lights at 30%")
  /\ smartHomeState.lights["kitchen"].on
  /\ smartHomeState.lights["kitchen"].brightness = 60
  /\ ~smartHomeState.lights["bedroom"].on
  /\ response.actions = <<"Turned on kitchen lights">>

(***************************************************************************)
(* C21: a command with an explicit percentage but no identified room, and  *)
(* none of the turn on/off, dim/lower, brighten/increase or light-status   *)
(* phrases, is declined by LightHandler: no light changes, no light action *)
(* is logged, and the command is passed on to the next handlers in order.  *)
(***************************************************************************)
RoomWords ==
  {"living", "living room", "lounge", "kitchen", "cook", "bedroom", "bed", "master"}

LightPhrases ==
  {"turn on", "switch on", "turn off", "switch off", "dim", "lower", "brighten",
   "increase"}

IsPercentageWithoutRoom(text) ==
  /\ matchNumberBefore(text, {"%", "percent", "brightness"}) # Null
  /\ \A word \in RoomWords : ~includes(text, word)
  /\ \A phrase \in LightPhrases : ~includes(text, phrase)
  /\ ~(includes(text, "status") /\ includes(text, "light"))

PercentageWithoutRoomTexts ==
  {text \in CommandTexts : IsPercentageWithoutRoom(text)}

\* this step has the reply, the actions and the resulting state of d
StepHasOutcome(d) ==
  /\ response'.reply = d.reply
  /\ response'.actions = d.actions
  /\ Domain(smartHomeState') = Domain(d.s)

\* the outcome when probing starts at ThermostatHandler
OutcomeAfterLightHandler(s, text) ==
  fallback(probeHandlers(2, s, text, <<>>), Tests[text].fallback)

C21_PercentageWithoutRoomFallsThrough ==
  [][\A text \in PercentageWithoutRoomTexts :
       Calls(text) =>
         /\ smartHomeState'.lights = smartHomeState.lights
         /\ StepHasOutcome(OutcomeAfterLightHandler(smartHomeState, text))]_vars

\* "set the lights to 30%" went past LightHandler with the lights on, and
\* ThermostatHandler took the 30
C21_Witness ==
  /\ Called("set the lights to 30%")
  /\ smartHomeState.lights["living"].on
  /\ smartHomeState.lights["living"].brightness = 40
  /\ response.actions = <<"Set thermostat to 55^F">>

(***************************************************************************)
(* C22: in every reachable state task ids are pairwise distinct, and no    *)
(* command other than the reset fallback removes a task, changes a task's  *)
(* id or title, or turns a completed flag from true back to false; the     *)
(* only task mutations are appending a new incomplete task and setting     *)
(* completed to true.                                                      *)
(***************************************************************************)
DistinctIds(tasks) ==
  \A i, j \in 1..Len(tasks) : tasks[i].id = tasks[j].id => i = j

TasksKept(old, new) ==
  /\ Len(new) >= Len(old)
  /\ \A i \in 1..Len(old) :
       /\ new[i].id = old[i].id
       /\ new[i].title = old[i].title
       /\ old[i].completed => new[i].completed

AppendedOne(old, new) ==
  /\ Len(new) = Len(old) + 1
  /\ SubSeq(new, 1, Len(old)) = old
  /\ ~new[Len(new)].completed

CompletedOne(old, new) ==
  \E i \in 1..Len(old) : new = [old EXCEPT ![i].completed = TRUE]

C22_TasksOnlyAddedOrCompleted ==
  [][/\ DistinctIds(smartHomeState'.tasks)
     /\ response'.reply # ResetReply =>
          /\ TasksKept(smartHomeState.tasks, smartHomeState'.tasks)
          /\ \/ smartHomeState'.tasks = smartHomeState.tasks
             \/ AppendedOne(smartHomeState.tasks, smartHomeState'.tasks)
             \/ CompletedOne(smartHomeState.tasks, smartHomeState'.tasks)]_vars

\* two tasks with different ids, the second one completed by the last call
C22_Witness ==
  /\ Called(CompleteWaterCommand)
  /\ Len(smartHomeState.tasks) = 2
  /\ smartHomeState.tasks[1].id # smartHomeState.tasks[2].id
  /\ smartHomeState.tasks[1].title = "Buy milk"
  /\ ~smartHomeState.tasks[1].completed
  /\ smartHomeState.tasks[2].completed
  /\ Len(response.actions) = 1

(***************************************************************************)
(* C23: a command that reaches ReminderHandler and contains "complete" or  *)
(* "done with" always yields a final reply: if some task's title contains  *)
(* the query as a case-insensitive substring, the first such task is       *)
(* marked completed and exactly one action is logged; otherwise (no match, *)
(* or no text after the keyword) the not-found reply is returned with no   *)
(* state change and no actions, and the fallbacks are not reached.         *)
(***************************************************************************)
\* the four handlers before ReminderHandler decline the text (they decide
\* on the text alone)
ReachesReminderHandler(text) ==
  \A i \in 1..4 : ~truthy(callHandler(FixedOrder[i], defaultValues, text, <<>>).reply)

CompleteTexts ==
  {text \in CommandTexts :
     /\ includes(text, "complete") \/ includes(text, "done with")
     /\ ReachesReminderHandler(text)}

\* the complete texts that the add and list branches, tested first, leave
CompleteBranchTexts ==
  {text \in CompleteTexts :
     /\ ~(includes(text, "add") /\ includes(text, "reminder"))
     /\ ~(includes(text, "list") /\ includes(text, "reminder"))}

\* the index of the first task whose lower-cased title contains the query,
\* 0 if there is none or there is no query
FirstMatch(tasks, query) ==
  IF query = Null THEN 0
  ELSE IF \E i \in 1..Len(tasks) : includes(toLowerCase(tasks[i].title), query[1])
  THEN CHOOSE i \in 1..Len(tasks) :
         /\ includes(toLowerCase(tasks[i].title), query[1])
         /\ \A j \in 1..(i - 1) : ~includes(toLowerCase(tasks[j].title), query[1])
  ELSE 0

CompleteStep(i) ==
  IF i > 0
  THEN /\ smartHomeState'.tasks = [smartHomeState.tasks EXCEPT ![i].completed = TRUE]
       /\ Len(response'.actions) = 1
       /\ response'.reply = "Marked " \o smartHomeState.tasks[i].title \o " as complete."
  ELSE /\ response'.reply = NotFoundReply
       /\ response'.actions = <<>>
       /\ Domain(smartHomeState') = Domain(smartHomeState)

C23_CompleteAlwaysAnswers ==
  [][\A text \in CompleteTexts :
       Calls(text) =>
         CompleteStep(FirstMatch(smartHomeState.tasks, Tests[text].task.query))]_vars

\* the same for the texts that are not taken by the add or the list branch
C23_CompleteBranchAlwaysAnswers ==
  [][\A text \in CompleteBranchTexts :
       Calls(text) =>
         CompleteStep(FirstMatch(smartHomeState.tasks, Tests[text].task.query))]_vars

\* "complete buy" fits both tasks and completed the first, "Buy bread"
C23_Witness ==
  /\ Called("complete buy")
  /\ Len(smartHomeState.tasks) = 2
  /\ smartHomeState.tasks[1].title = "Buy bread"
  /\ smartHomeState.tasks[1].completed
  /\ smartHomeState.tasks[2].title = "Buy milk"
  /\ ~smartHomeState.tasks[2].completed
  /\ response.reply = "Marked Buy bread as complete."

(***************************************************************************)
(* C24: the complete lookup selects the first task in insertion order      *)
(* whose title contains the query, whether or not that task is already     *)
(* completed; hence of two tasks with identical titles the later one is    *)
(* never marked completed by a sequence of commands without a reset, and   *)
(* repeated "complete" commands keep confirming the earlier one.           *)
(***************************************************************************)
LaterTwinNotCompleted(tasks) ==
  \A i, j \in 1..Len(tasks) :
    (i < j /\ tasks[i].title = tasks[j].title) => ~tasks[j].completed

\* the first match is completed already, and the step confirms it again
ConfirmsAgain(i) ==
  (i > 0 /\ smartHomeState.tasks[i].completed) =>
    /\ response'.reply = "Marked " \o smartHomeState.tasks[i].title \o " as complete."
    /\ response'.actions = <<"Completed reminder: " \o smartHomeState.tasks[i].title>>
    /\ smartHomeState'.tasks = smartHomeState.tasks

C24_CompleteTakesFirstMatchAgain ==
  [][/\ LaterTwinNotCompleted(smartHomeState'.tasks)
     /\ \A text \in CompleteBranchTexts :
          Calls(text) =>
            ConfirmsAgain(FirstMatch(smartHomeState.tasks, Tests[text].task.query))]_vars

\* two tasks titled "Buy milk": the call confirmed the first, the second is
\* still open
C24_Witness ==
  /\ Called("complete buy milk")
  /\ Len(smartHomeState.tasks) = 2
  /\ smartHomeState.tasks[1].title = "Buy milk"
  /\ smartHomeState.tasks[2].title = "Buy milk"
  /\ smartHomeState.tasks[1].completed
  /\ ~smartHomeState.tasks[2].completed
  /\ response.reply = "Marked Buy milk as complete."

(***************************************************************************)
(* C25: when a command reaching ThermostatHandler contains a number of     *)
(* three or more digits, the temperature is taken from the first two       *)
(* consecutive digits only and then clamped to 55..85 ("set the thermostat *)
(* to 100" yields 55, not 85); a command whose only number has a single    *)
(* digit does not set the temperature.                                     *)
(***************************************************************************)
ReachesThermostatHandler(text) ==
  ~truthy(callHandler("handleLightCommand", defaultValues, text, <<>>).reply)

DigitAt(text, i) == IsDigit(CharAt(text, i))

HasLongNumber(text) ==
  \E i \in 1..Len(text) :
    DigitAt(text, i) /\ DigitAt(text, i + 1) /\ DigitAt(text, i + 2)

HasSingleDigitsOnly(text) ==
  /\ \E i \in 1..Len(text) : DigitAt(text, i)
  /\ \A i \in 1..Len(text) : ~(DigitAt(text, i) /\ DigitAt(text, i + 1))

\* the value of the first two consecutive digits of the text
FirstTwoDigits(text) ==
  LET i == CHOOSE k \in 1..Len(text) :
             /\ DigitAt(text, k) /\ DigitAt(text, k + 1)
             /\ \A j \in 1..(k - 1) : ~(DigitAt(text, j) /\ DigitAt(text, j + 1))
  IN 10 * DigitVal(CharAt(text, i)) + DigitVal(CharAt(text, i + 1))

Within55And85(value) ==
  IF value < 55 THEN 55 ELSE IF value > 85 THEN 85 ELSE value

LongNumberTexts ==
  {text \in CommandTexts : HasLongNumber(text) /\ ReachesThermostatHandler(text)}

SingleDigitTexts ==
  {text \in CommandTexts : HasSingleDigitsOnly(text) /\ ReachesThermostatHandler(text)}

C25_TemperatureFromFirstTwoDigits ==
  [][/\ \A text \in LongNumberTexts :
          Calls(text) =>
            smartHomeState'.thermostat.temperature =
              Within55And85(FirstTwoDigits(text))
     /\ \A text \in SingleDigitTexts :
          Calls(text) =>
            smartHomeState'.thermostat.temperature =
              smartHomeState.thermostat.temperature]_vars

\* "set the thermostat to 100" was sent at 68 degrees and gave 55
C25_Witness ==
  /\ Called("set the thermostat to 100")
  /\ smartHomeState.thermostat.temperature = 55
  /\ smartHomeState.thermostat.mode = "heat"
  /\ response.reply = "Setting the thermostat to 55 degrees Fahrenheit."

(***************************************************************************)
(* C26: in the page, sendCommand (called from the form submit, the         *)
(* bootstrap effect and the speech-recognition final-result callback)      *)
(* never starts a request to /api/agent while another one is in flight, so *)
(* the engine receives at most one command at a time from one page, and    *)
(* isProcessing is set back to false after every request, whether it       *)
(* succeeds or fails.                                                      *)
(***************************************************************************)
\* this step is the end of a request: try or catch, then finally
RequestSettles == Cardinality(requests') < Cardinality(requests)

C26_OneRequestInFlight ==
  [][/\ Cardinality(requests') <= 1
     /\ RequestSettles => ~page'.isProcessing]_vars

\* the second half alone: every request that ends resets isProcessing
C26_SettleResetsIsProcessing ==
  [][RequestSettles => ~page'.isProcessing]_vars

====
